---- MODULE Spec2Model ----
(***************************************************************************)
(* A model of gwak/train/ssm.py: the DropoutNd module, the S4DKernel       *)
(* parameter store and kernel generator, the S4D sequence layer and the    *)
(* S4Model residual stack.                                                 *)
(*                                                                         *)
(* Conventions.                                                            *)
(*   - An optional value (Optional[float]) is a set: {} is None, {v} is v. *)
(*   - Dropout probabilities are counted in thousandths (1000 is 1.0).     *)
(*   - Learning rates are counted in ten-thousandths (10 is 0.001).        *)
(*   - A tensor shape is a sequence of positive integers; an operation     *)
(*     that raises yields the empty set, one that succeeds yields {shape}. *)
(*   - The value held by a stored tensor is abstracted to an integer that  *)
(*     changes whenever the optimizer rewrites the tensor.                 *)
(***************************************************************************)
EXTENDS Integers, Sequences, FiniteSets, TLC

VARIABLES made,      \* constructor: the outcome of the last construction
          model,     \* forward: the S4Model instance (its parameter store included)
          call,      \* forward: the forward call in flight
          conv,      \* convolution: operands and result of the S4D convolution
          drop       \* dropout: operands and result of a dropout forward call

vars == <<made, model, call, conv, drop>>

\* The value of a variable that a specification does not use.
Unused == [pc |-> "unused"]

Min(a, b) == IF a <= b THEN a ELSE b

(***************************************************************************)
(* Construction                                                            *)
(***************************************************************************)

\* DropoutNd.__init__: p < 0 or p >= 1 raises ValueError.
DropoutNd_init(p, tie, transposed) ==
    IF p < 0 \/ p >= 1000
    THEN [raised |-> TRUE]
    ELSE [raised |-> FALSE, p |-> p, tie |-> tie, transposed |-> transposed]

\* torch.nn.Dropout1d(p), as S4D and S4Model construct it: the library raises
\* ValueError when p < 0 or p > 1, so that p = 1 is accepted.
Dropout1d_init(p) ==
    IF p < 0 \/ p > 1000
    THEN [raised |-> TRUE]
    ELSE [raised |-> FALSE, p |-> p]

\* A freshly made nn.Module as far as S4DKernel uses it: the names of its
\* trainable parameters, the names of its buffers, the _optim attribute of the
\* parameters that carry one, and the value each stored tensor holds.
EmptyModule == [params |-> {}, buffers |-> {}, optim |-> <<>>, vals |-> <<>>]

SetVal(self, name, tensor) ==
    [n \in DOMAIN self.vals \cup {name} |->
        IF n = name THEN tensor ELSE self.vals[n]]

\* self.<name> = nn.Parameter(tensor): a trainable parameter without _optim.
register_parameter(self, name, tensor) ==
    [self EXCEPT !.params = @ \cup {name},
                 !.vals = SetVal(self, name, tensor)]

register_buffer(self, name, tensor) ==
    [self EXCEPT !.buffers = @ \cup {name},
                 !.vals = SetVal(self, name, tensor)]

\* S4DKernel.register with the buffer test inverted.
register_never_frozen(self, name, tensor, lr) ==
    LET p == register_parameter(self, name, tensor)
        o == IF lr # {} THEN [weight_decay |-> 0, lr |-> CHOOSE v \in lr : TRUE]
                        ELSE [weight_decay |-> 0]
    IN  [p EXCEPT !.optim = [n \in DOMAIN p.optim \cup {name} |->
                                IF n = name THEN o ELSE p.optim[n]]]

\* S4DKernel.register with the weight decay of the override left at a default.
register_decayed(self, name, tensor, lr) ==
    IF lr = {0}
    THEN register_buffer(self, name, tensor)
    ELSE LET p == register_parameter(self, name, tensor)
             o == IF lr # {} THEN [weight_decay |-> 1, lr |-> CHOOSE v \in lr : TRUE]
                             ELSE [weight_decay |-> 1]
         IN  [p EXCEPT !.optim = [n \in DOMAIN p.optim \cup {name} |->
                                     IF n = name THEN o ELSE p.optim[n]]]

\* S4DKernel.register: a buffer when lr == 0.0, else a parameter whose _optim
\* is {"weight_decay": 0.0} plus "lr" when lr is not None.
register(self, name, tensor, lr) ==
    IF lr = {0}
    THEN register_buffer(self, name, tensor)
    ELSE LET p == register_parameter(self, name, tensor)
             o == IF lr # {} THEN [weight_decay |-> 0, lr |-> CHOOSE v \in lr : TRUE]
                             ELSE [weight_decay |-> 0]
         IN  [p EXCEPT !.optim = [n \in DOMAIN p.optim \cup {name} |->
                                     IF n = name THEN o ELSE p.optim[n]]]

\* S4DKernel.__init__: C is assigned as a plain nn.Parameter; log_dt,
\* log_A_real and A_imag go through register; the time index goes to a buffer.
\* Every tensor starts at value 0, the time index holds the length.
S4DKernel_init(d_model, length, lr) ==
    LET m1 == register_parameter(EmptyModule, "C", 0)
        m2 == register(m1, "log_dt", 0, lr)
        m3 == register(m2, "log_A_real", 0, lr)
        m4 == register(m3, "A_imag", 0, lr)
    IN  register_buffer(m4, "length", length)

\* S4D.__init__: the kernel first, the dropout module after it.
S4D_init(d_model, length, dropout, transposed, lr) ==
    LET kernel == S4DKernel_init(d_model, length, lr)
        dropout_module == Dropout1d_init(dropout)
    IN  IF dropout_module.raised
        THEN [raised |-> TRUE]
        ELSE [raised |-> FALSE, transposed |-> transposed, length |-> length,
              d_model |-> d_model, kernel |-> kernel, dropout |-> dropout_module,
              lr |-> lr]

\* The ceiling of S4Model.__init__, lr = min(0.001, lr), in ten-thousandths.
LrCeiling == 10

\* The clamp with max in the place of min.
ClampLr_max(lr) ==
    IF lr # {} THEN {LET v == CHOOSE w \in lr : TRUE
                     IN  IF v >= LrCeiling THEN v ELSE LrCeiling}
               ELSE lr

\* S4Model.__init__: if lr is not None: lr = min(0.001, lr).
ClampLr(lr) ==
    IF lr # {} THEN {Min(LrCeiling, CHOOSE v \in lr : TRUE)} ELSE lr

\* S4Model.__init__: n_layers times an S4D, a LayerNorm and a Dropout1d, all
\* with the same arguments; the first that raises ends the construction.
S4Model_init(d_input, length, d_output, d_model, n_layers, dropout, prenorm, lr) ==
    LET lr_c == ClampLr(lr)
        layer == S4D_init(d_model, length, dropout, TRUE, lr_c)
        dropout_module == Dropout1d_init(dropout)
    IN  IF n_layers > 0 /\ (layer.raised \/ dropout_module.raised)
        THEN [raised |-> TRUE]
        ELSE [raised |-> FALSE, prenorm |-> prenorm, d_input |-> d_input,
              d_output |-> d_output, d_model |-> d_model, length |-> length,
              s4_layers |-> [i \in 1..n_layers |-> layer],
              dropouts |-> [i \in 1..n_layers |-> dropout_module]]

\* Bounds of the constructor's inputs.
MaxLayers == 2
MaxLen == 3
MaxDim == 2

\* Dropout probabilities tried: -0.1, 0.0, 0.5, 0.999, 1.0, 1.5.
DropoutArgs == {-100, 0, 500, 999, 1000, 1500}
\* Learning rates tried: None, 0.0, a negative one, below, at and above 0.001.
LrArgs == {{}, {0}, {-1}, {5}, {LrCeiling}, {LrCeiling + 10}}

Construct_DropoutNd ==
    \E p \in DropoutArgs, tie \in BOOLEAN, transposed \in BOOLEAN :
        made' = [target |-> "DropoutNd", dropout |-> p, lr |-> {}, n_layers |-> 0,
                 obj |-> DropoutNd_init(p, tie, transposed)]

Construct_S4D ==
    \E p \in DropoutArgs, lr \in LrArgs, transposed \in BOOLEAN, length \in {1, MaxLen} :
        made' = [target |-> "S4D", dropout |-> p, lr |-> lr, n_layers |-> 0,
                 obj |-> S4D_init(MaxDim, length, p, transposed, lr)]

Construct_S4Model ==
    \E p \in DropoutArgs, lr \in LrArgs, n \in 0..MaxLayers, prenorm \in BOOLEAN :
        made' = [target |-> "S4Model", dropout |-> p, lr |-> lr, n_layers |-> n,
                 obj |-> S4Model_init(1, MaxLen, 1, MaxDim, n, p, prenorm, lr)]

InitCtor ==
    /\ made = [target |-> "none", dropout |-> 0, lr |-> {}, n_layers |-> 0,
               obj |-> [raised |-> FALSE]]
    /\ model = Unused /\ call = Unused /\ conv = Unused /\ drop = Unused

NextCtor ==
    \/ Construct_DropoutNd /\ UNCHANGED <<model, call, conv, drop>>
    \/ Construct_S4D /\ UNCHANGED <<model, call, conv, drop>>
    \/ Construct_S4Model /\ UNCHANGED <<model, call, conv, drop>>

SpecCtor == InitCtor /\ [][NextCtor]_vars

(***************************************************************************)
(* Tensor shapes                                                           *)
(***************************************************************************)

Max(a, b) == IF a >= b THEN a ELSE b

SetLast(s, d) == [s EXCEPT ![Len(s)] = d]

\* Broadcasting that accepts equal sizes only, a missing leading axis aside.
Broadcast_strict(a, b) ==
    LET n == Max(Len(a), Len(b))
        pa == [i \in 1..n |-> IF i <= n - Len(a) THEN 0 ELSE a[i - (n - Len(a))]]
        pb == [i \in 1..n |-> IF i <= n - Len(b) THEN 0 ELSE b[i - (n - Len(b))]]
    IN  IF \A i \in 1..n : pa[i] = pb[i] \/ pa[i] = 0 \/ pb[i] = 0
        THEN {[i \in 1..n |-> IF pa[i] = 0 THEN pb[i] ELSE pa[i]]}
        ELSE {}

\* Broadcasting of two shapes, aligned on the right: sizes must agree or be 1.
Broadcast(a, b) ==
    LET n == Max(Len(a), Len(b))
        pa == [i \in 1..n |-> IF i <= n - Len(a) THEN 1 ELSE a[i - (n - Len(a))]]
        pb == [i \in 1..n |-> IF i <= n - Len(b) THEN 1 ELSE b[i - (n - Len(b))]]
    IN  IF \A i \in 1..n : pa[i] = pb[i] \/ pa[i] = 1 \/ pb[i] = 1
        THEN {[i \in 1..n |-> IF pa[i] = 1 THEN pb[i] ELSE pa[i]]}
        ELSE {}

\* x.transpose(-1, -2)
transpose(s) ==
    IF Len(s) < 2 THEN {}
    ELSE {[s EXCEPT ![Len(s)] = s[Len(s) - 1], ![Len(s) - 1] = s[Len(s)]]}

\* nn.Linear(d_in, d_out) on the last axis.
Linear(s, d_in, d_out) ==
    IF Len(s) >= 1 /\ s[Len(s)] = d_in THEN {SetLast(s, d_out)} ELSE {}

\* nn.LayerNorm(d) on the last axis.
LayerNorm(s, d) == IF Len(s) >= 1 /\ s[Len(s)] = d THEN {s} ELSE {}

\* torch.fft.rfft(x, n=n): the last axis is zero-padded or trimmed to n, and
\* n // 2 + 1 frequency bins come out.
rfft(s, n) == IF Len(s) >= 1 THEN {SetLast(s, (n \div 2) + 1)} ELSE {}

\* torch.fft.irfft(x, n=n): n samples on the last axis.
irfft(s, n) == IF Len(s) >= 1 THEN {SetLast(s, n)} ELSE {}

\* x[..., :length]
SliceLast(s, length) == {SetLast(s, Min(s[Len(s)], length))}

\* torch.nn.Dropout1d: a 2-D or 3-D input, whose shape it keeps.
Dropout1d_shape(s) == IF Len(s) \in {2, 3} THEN {s} ELSE {}

\* nn.Conv1d(c_in, c_out, kernel_size=1): channels on the axis before the last.
Conv1d(s, c_in, c_out) ==
    IF Len(s) \in {2, 3} /\ s[Len(s) - 1] = c_in
    THEN {[s EXCEPT ![Len(s) - 1] = c_out]}
    ELSE {}

\* A GLU that gates without halving the channel axis.
GLU_keep(s) == IF Len(s) >= 2 THEN {s} ELSE {}

\* nn.GLU(dim=-2): the axis before the last must be even and is halved.
GLU(s) ==
    IF Len(s) >= 2 /\ s[Len(s) - 1] % 2 = 0
    THEN {[s EXCEPT ![Len(s) - 1] = s[Len(s) - 1] \div 2]}
    ELSE {}

\* x.mean(dim=1): axis 1 (the second) is reduced away.
mean_dim1(s) ==
    IF Len(s) >= 2 THEN {<<s[1]>> \o SubSeq(s, 3, Len(s))} ELSE {}

(***************************************************************************)
(* Forward evaluation                                                      *)
(***************************************************************************)

\* The attributes S4DKernel.forward reads.
KernelReads == {"log_dt", "C", "log_A_real", "A_imag", "length"}

\* A kernel generator that serves the kernel of the initial tensors.
S4DKernel_forward_stale(self) ==
    {[n \in KernelReads |-> IF n = "length" THEN self.vals[n] ELSE 0]}

\* S4DKernel.forward: K is a function of log_dt, C, log_A_real, A_imag and the
\* time index, each looked up among the module's parameters and buffers. The
\* kernel is represented by the values of the tensors it was computed from.
S4DKernel_forward(self) ==
    IF KernelReads \subseteq self.params \cup self.buffers
    THEN {[n \in KernelReads |-> self.vals[n]]}
    ELSE {}

\* The shape of the kernel: (H, L), L the length of the time index.
KernelShape(layer) == <<layer.d_model, layer.kernel.vals["length"]>>

\* A transform of `length` samples, without padding.
fft_size_unpadded(length) == length

\* The n of lines 181-183: n = 2 * self.length.
fft_size(length) == 2 * length

\* S4D.forward, lines 181-185: the product of the two transforms, inverted and
\* cut to the first `length` samples.
fft_conv(layer, u) ==
    LET n == fft_size(layer.length)
        k_f == rfft(KernelShape(layer), n)
        u_f == rfft(u, n)
        uk == UNION {Broadcast(a, b) : a \in u_f, b \in k_f}
        y == UNION {irfft(p, n) : p \in uk}
    IN  UNION {SliceLast(q, layer.length) : q \in y}

\* S4D.forward, line 189: y + u * self.D.unsqueeze(-1)
skip_add(layer, y, u) ==
    UNION {Broadcast(y, uD) : uD \in Broadcast(u, <<layer.d_model, 1>>)}

\* S4D.forward, lines 191-192: activation, dropout, Conv1d and GLU.
feedforward(layer, y) ==
    LET c == UNION {Conv1d(a, layer.d_model, 2 * layer.d_model) : a \in Dropout1d_shape(y)}
    IN  UNION {GLU(b) : b \in c}

\* S4D.forward: the shape of the output, or the line that raises.
S4D_forward(layer, u_in) ==
    LET u0 == IF layer.transposed THEN {u_in} ELSE transpose(u_in)
    IN  IF u0 = {} THEN [y |-> {}, line |-> 175]
        ELSE
        LET u == CHOOSE s \in u0 : TRUE
            k == S4DKernel_forward(layer.kernel)
            c == fft_conv(layer, u)
            y == UNION {skip_add(layer, a, u) : a \in c}
            f == UNION {feedforward(layer, a) : a \in y}
            o == IF layer.transposed THEN f ELSE UNION {transpose(a) : a \in f}
        IN  IF k = {} THEN [y |-> {}, line |-> 178]
            ELSE IF c = {} THEN [y |-> {}, line |-> 183]
            ELSE IF y = {} THEN [y |-> {}, line |-> 189]
            ELSE IF f = {} THEN [y |-> {}, line |-> 192]
            ELSE [y |-> o, line |-> 0]

\* self.encoder and the LayerNorm of a layer, as the module applied to a shape.
encoder(net) == [op |-> "Linear", d_in |-> net.d_input, d_out |-> net.d_model]
norm(net) == [op |-> "LayerNorm", d_in |-> net.d_model, d_out |-> net.d_model]

\* m(x.transpose(-1, -2)).transpose(-1, -2): module m on the channel axis.
on_last_axis(m, x) ==
    LET y == UNION {IF m.op = "Linear" THEN Linear(a, m.d_in, m.d_out)
                                       ELSE LayerNorm(a, m.d_in) : a \in transpose(x)}
    IN  UNION {transpose(b) : b \in y}

\* Bounds of the forward model.
MaxB == 2
MaxSteps == 1

\* The learning rates the forward model is built with: None, 0.0, above 0.001.
FwdLrArgs == {{}, {0}, {LrCeiling + 10}}

NLayers == Len(model.net.s4_layers)

\* The value of every stored tensor of every layer.
Stored == [j \in 1..NLayers |-> model.net.s4_layers[j].kernel.vals]

IdleCall(n) ==
    [pc |-> "idle", input |-> <<>>, x |-> <<>>, z |-> <<>>, i |-> 0,
     k |-> [j \in 1..n |-> {}], ex |-> <<>>, ez |-> <<>>, snap |-> <<>>,
     line |-> 0, out |-> {}]

Finished == call.pc \in {"idle", "returned", "raised"}

Raise(line) == call' = [call EXCEPT !.pc = "raised", !.line = line]

\* The caller hands S4Model.forward a tensor of shape (B, d_input, L).
Forward_call ==
    /\ Finished
    /\ \E B \in 1..MaxB, Lin \in 1..MaxLen :
        call' = [IdleCall(NLayers) EXCEPT !.pc = "encoder",
                    !.input = <<B, model.net.d_input, Lin>>,
                    !.x = <<B, model.net.d_input, Lin>>,
                    !.snap = Stored]
    /\ UNCHANGED model

\* The external optimizer, between forward calls: every trainable parameter
\* receives a new value, a buffer is left alone.
Optimizer_step ==
    /\ Finished
    /\ model.steps < MaxSteps
    /\ model' = [steps |-> model.steps + 1,
                 net |-> [model.net EXCEPT !.s4_layers =
                    [j \in 1..NLayers |->
                        [model.net.s4_layers[j] EXCEPT !.kernel.vals =
                            [n \in DOMAIN @ |->
                                IF n \in model.net.s4_layers[j].kernel.params
                                THEN @[n] + 1 ELSE @[n]]]]]]
    /\ call' = IdleCall(NLayers)

\* S4Model.forward, lines 250-253: transpose, encoder, transpose.
Forward_encoder ==
    /\ call.pc = "encoder"
    /\ LET e == on_last_axis(encoder(model.net), call.x)
       IN  IF e = {} THEN Raise(251)
           ELSE call' = [call EXCEPT !.pc = "loop", !.i = 1,
                                     !.x = CHOOSE s \in e : TRUE]
    /\ UNCHANGED model

\* Lines 254-260: the next layer, if there is one; z = x.
Forward_loop ==
    /\ call.pc = "loop"
    /\ IF call.i > NLayers
       THEN call' = [call EXCEPT !.pc = "pool"]
       ELSE call' = [call EXCEPT !.pc = "prenorm", !.z = call.x,
                                 !.ex = <<"x">>, !.ez = <<"x">>]
    /\ UNCHANGED model

\* Lines 261-263: if self.prenorm: z = norm(z.transpose(-1, -2)).transpose(-1, -2)
Forward_prenorm ==
    /\ call.pc = "prenorm"
    /\ IF model.net.prenorm
       THEN LET n == on_last_axis(norm(model.net), call.z)
            IN  IF n = {} THEN Raise(263)
                ELSE call' = [call EXCEPT !.pc = "s4", !.z = CHOOSE s \in n : TRUE,
                                          !.ez = <<"norm">> \o @]
       ELSE call' = [call EXCEPT !.pc = "s4"]
    /\ UNCHANGED model

\* Line 266: z, _ = layer(z), S4D.forward with the kernel it computes.
Forward_s4 ==
    /\ call.pc = "s4"
    /\ LET layer == model.net.s4_layers[call.i]
           r == S4D_forward(layer, call.z)
           k == S4DKernel_forward(layer.kernel)
       IN  IF r.y = {}
           THEN call' = [call EXCEPT !.pc = "raised", !.line = r.line, !.k[call.i] = k]
           ELSE call' = [call EXCEPT !.pc = "dropout", !.z = CHOOSE s \in r.y : TRUE,
                                     !.ez = <<"s4">> \o @, !.k[call.i] = k]
    /\ UNCHANGED model

\* Line 269: z = dropout(z)
Forward_dropout ==
    /\ call.pc = "dropout"
    /\ IF Dropout1d_shape(call.z) = {} THEN Raise(269)
       ELSE call' = [call EXCEPT !.pc = "residual", !.ez = <<"dropout">> \o @]
    /\ UNCHANGED model

\* Line 272: x = z + x
Forward_residual ==
    /\ call.pc = "residual"
    /\ LET a == Broadcast(call.z, call.x)
       IN  IF a = {} THEN Raise(272)
           ELSE call' = [call EXCEPT !.pc = "postnorm", !.x = CHOOSE s \in a : TRUE,
                                     !.ex = <<"add">> \o call.ez \o @]
    /\ UNCHANGED model

\* Normalization after the sum whatever the mode.
Forward_postnorm_always ==
    /\ call.pc = "postnorm"
    /\ call' = [call EXCEPT !.pc = "loop", !.i = @ + 1, !.ex = <<"norm">> \o @]
    /\ UNCHANGED model

\* Lines 274-276: if not self.prenorm: x = norm(x.transpose(-1, -2)).transpose(-1, -2)
Forward_postnorm ==
    /\ call.pc = "postnorm"
    /\ IF ~model.net.prenorm
       THEN LET n == on_last_axis(norm(model.net), call.x)
            IN  IF n = {} THEN Raise(276)
                ELSE call' = [call EXCEPT !.pc = "loop", !.i = @ + 1,
                                          !.x = CHOOSE s \in n : TRUE,
                                          !.ex = <<"norm">> \o @]
       ELSE call' = [call EXCEPT !.pc = "loop", !.i = @ + 1]
    /\ UNCHANGED model

\* Lines 278-286: transpose, mean over the sequence axis, decoder, return.
Forward_pool ==
    /\ call.pc = "pool"
    /\ LET pooled == UNION {mean_dim1(a) : a \in transpose(call.x)}
           o == UNION {Linear(b, model.net.d_model, model.net.d_output) : b \in pooled}
       IN  IF o = {} THEN Raise(284)
           ELSE call' = [call EXCEPT !.pc = "returned", !.out = o]
    /\ UNCHANGED model

InitFwd ==
    /\ \E d_input \in 1..MaxDim, length \in 1..MaxLen, d_output \in 1..MaxDim,
          d_model \in 1..MaxDim, n \in 0..MaxLayers, prenorm \in BOOLEAN,
          lr \in FwdLrArgs :
        /\ model = [steps |-> 0,
                    net |-> S4Model_init(d_input, length, d_output, d_model, n,
                                         0, prenorm, lr)]
        /\ call = IdleCall(n)
    /\ made = Unused /\ conv = Unused /\ drop = Unused

NextFwd ==
    \/ Forward_call /\ UNCHANGED <<made, conv, drop>>
    \/ Optimizer_step /\ UNCHANGED <<made, conv, drop>>
    \/ Forward_encoder /\ UNCHANGED <<made, conv, drop>>
    \/ Forward_loop /\ UNCHANGED <<made, conv, drop>>
    \/ Forward_prenorm /\ UNCHANGED <<made, conv, drop>>
    \/ Forward_s4 /\ UNCHANGED <<made, conv, drop>>
    \/ Forward_dropout /\ UNCHANGED <<made, conv, drop>>
    \/ Forward_residual /\ UNCHANGED <<made, conv, drop>>
    \/ Forward_postnorm /\ UNCHANGED <<made, conv, drop>>
    \/ Forward_pool /\ UNCHANGED <<made, conv, drop>>

SpecFwd == InitFwd /\ [][NextFwd]_vars

(***************************************************************************)
(* Properties of construction (SpecCtor)                                   *)
(***************************************************************************)

\* The tensors S4DKernel passes to register, and the state-space tensors.
Registered == {"log_dt", "log_A_real", "A_imag"}
StateSpace == Registered \cup {"C"}

\* The S4D layers of the object constructed last.
MadeLayers ==
    IF made.obj.raised THEN {}
    ELSE IF made.target = "S4D" THEN {made.obj}
    ELSE IF made.target = "S4Model"
         THEN {made.obj.s4_layers[i] : i \in DOMAIN made.obj.s4_layers}
    ELSE {}

\* C1: constructing DropoutNd, S4D or S4Model with dropout probability 1.0 or
\* -0.1 raises a validation error, and with 0.0 or 0.999 it succeeds.
C1_InvalidDropoutRaises ==
    made.target \in {"DropoutNd", "S4D", "S4Model"} =>
        /\ made.dropout \in {1000, -100} => made.obj.raised
        /\ made.dropout \in {0, 999} => ~made.obj.raised

C4_LrClamped ==
    made.target = "S4Model" =>
        \A layer \in MadeLayers :
            /\ \A v \in layer.lr : v <= LrCeiling /\ \A w \in made.lr : v <= w
            /\ made.lr = {} <=> layer.lr = {}
            /\ made.lr = {0} => layer.lr = {0} /\ Registered \subseteq layer.kernel.buffers
            /\ \A n \in DOMAIN layer.kernel.optim :
                "lr" \in DOMAIN layer.kernel.optim[n] =>
                    layer.kernel.optim[n].lr <= LrCeiling

C4_Witness ==
    /\ made.target = "S4Model" /\ ~made.obj.raised /\ made.n_layers = MaxLayers
    /\ made.lr = {LrCeiling + 10}
    /\ \A layer \in MadeLayers : layer.kernel.optim["A_imag"].lr = LrCeiling

(***************************************************************************)
(* Properties of forward evaluation (SpecFwd)                              *)
(***************************************************************************)

\* The layers whose S4D.forward has run in the call in flight.
Ran == {j \in 1..NLayers : call.k[j] # {}}

\* C2 as stated: with learning rate 0.0 every one of log_dt, C, log_A_real and
\* A_imag of every layer is a buffer and no trainable parameter.
C2_AllFourFrozen ==
    \A j \in 1..NLayers : model.net.s4_layers[j].lr = {0} =>
        \A n \in StateSpace :
            /\ n \in model.net.s4_layers[j].kernel.buffers
            /\ n \notin model.net.s4_layers[j].kernel.params

\* C2 amended: with learning rate 0.0, log_dt, log_A_real and A_imag of every
\* layer are buffers, no trainable parameters, and keep their initial value
\* through every optimizer step, while C stays a trainable parameter; the
\* kernel computation of forward reads all four.
C2_RegisteredFrozen ==
    \A j \in 1..NLayers : model.net.s4_layers[j].lr = {0} =>
        LET kernel == model.net.s4_layers[j].kernel
        IN  /\ \A n \in Registered :
                /\ n \in kernel.buffers
                /\ n \notin kernel.params
                /\ kernel.vals[n] = 0
            /\ "C" \in kernel.params /\ "C" \notin kernel.buffers
            /\ kernel.vals["C"] = model.steps
            /\ j \in Ran =>
                \A k \in call.k[j] :
                    /\ StateSpace \subseteq DOMAIN k
                    /\ \A n \in StateSpace : k[n] = kernel.vals[n]
            /\ call.pc = "raised" => call.line # 178

C2_Witness ==
    /\ NLayers = MaxLayers /\ model.net.s4_layers[1].lr = {0}
    /\ model.steps = MaxSteps /\ call.pc = "returned" /\ Ran = 1..NLayers

\* C6: on an input (B, input_dim, L) with L the constructed length, forward
\* returns (B, output_dim) and never raises, with and without prenorm and for
\* any number of layers; every layer, and every iteration of the stack, maps
\* (B, d_model, L) to (B, d_model, L).
C6_Shapes ==
    (call.pc # "idle" /\ call.input[3] = model.net.length) =>
        LET through == <<call.input[1], model.net.d_model, model.net.length>>
        IN  /\ call.pc # "raised"
            /\ call.pc = "returned" => call.out = {<<call.input[1], model.net.d_output>>}
            /\ call.pc \in {"loop", "prenorm", "s4", "residual", "postnorm", "pool"}
                    => call.x = through
            /\ call.pc \in {"prenorm", "s4", "dropout", "residual"} => call.z = through

C6_Witness ==
    /\ call.pc = "returned" /\ NLayers = MaxLayers /\ model.net.prenorm
    /\ call.input = <<MaxB, MaxDim, MaxLen>> /\ model.net.length = MaxLen
    /\ model.net.d_model = 1 /\ call.out = {<<MaxB, 1>>}

\* C7 as stated, for a stack of at least one sequence layer: a forward call
\* whose input length differs from the configured length never runs to
\* completion.
C7_MismatchNeverReturns ==
    (NLayers >= 1 /\ call.pc = "returned") => call.input[3] = model.net.length

\* C7 amended: in a model with at least one layer, a forward call whose input
\* length differs from the configured length raises a shape error at the skip
\* addition of the first layer (S4D.forward, line 189) when both lengths are
\* greater than 1; when the input length or the configured length is 1,
\* broadcasting lets the call run to completion and return (B, output_dim).
\* Without a layer a call of any length completes.
C7_MismatchRaisesUnlessBroadcast ==
    (call.pc # "idle" /\ call.input[3] # model.net.length) =>
        IF NLayers = 0 \/ call.input[3] = 1 \/ model.net.length = 1
        THEN /\ call.pc # "raised"
             /\ call.pc = "returned" =>
                    call.out = {<<call.input[1], model.net.d_output>>}
        ELSE /\ call.pc \in {"encoder", "loop", "prenorm", "s4", "raised"}
             /\ call.i <= 1
             /\ call.pc = "raised" => call.line = 189

C7_Witness ==
    /\ call.pc = "returned" /\ NLayers = MaxLayers
    /\ call.input[3] = 1 /\ model.net.length = MaxLen

\* C8: every layer iteration applies exactly one normalization: with prenorm
\* the sum is z + x with z = dropout(layer(norm(x))) and x the un-normalized
\* input of the iteration, and nothing follows the sum; without it the result
\* is norm(dropout(layer(x)) + x). Expressions are written in prefix form.
C8_IterationOrder ==
    (call.pc \in {"loop", "pool", "returned"} /\ call.i > 1) =>
        call.ex = IF model.net.prenorm
                  THEN <<"add", "dropout", "s4", "norm", "x", "x">>
                  ELSE <<"norm", "add", "dropout", "s4", "x", "x">>

C8_Witness ==
    /\ call.pc = "returned" /\ call.i = MaxLayers + 1 /\ model.net.prenorm
    /\ call.ex = <<"add", "dropout", "s4", "norm", "x", "x">>

\* C9: from the start of a forward call to its end every stored parameter and
\* buffer holds the value it had when the call started, and the kernel each
\* layer used was computed from exactly these values, whatever optimizer
\* steps and forward calls came before.
C9_KernelFresh ==
    call.pc # "idle" =>
        /\ Stored = call.snap
        /\ \A j \in Ran : \A k \in call.k[j] :
                \A n \in KernelReads : k[n] = call.snap[j][n]

C9_Witness ==
    /\ call.pc = "returned" /\ model.steps = MaxSteps /\ Ran = 1..MaxLayers
    /\ \A k \in call.k[MaxLayers] : k["C"] = MaxSteps

(***************************************************************************)
(* The convolution of S4D.forward on values                                *)
(*                                                                         *)
(* A sequence is a function on 0..n-1. rfft(x, n=n) zero-pads or trims x   *)
(* to n samples; the inverse transform of the product of the transforms of *)
(* two sequences of n samples is their cyclic convolution modulo n.        *)
(* Values are integers: the rounding of the transforms is left out.        *)
(***************************************************************************)

RECURSIVE Sum(_, _, _)
\* f[lo] + ... + f[hi]
Sum(f, lo, hi) == IF lo > hi THEN 0 ELSE f[lo] + Sum(f, lo + 1, hi)

\* The samples rfft(x, n=n) transforms: x zero-padded or trimmed to n.
Resize(x, len, n) == [t \in 0..(n - 1) |-> IF t < len THEN x[t] ELSE 0]

\* irfft(rfft(a, n) * rfft(b, n), n): the cyclic convolution modulo n.
irfft_product(a, b, n) ==
    [t \in 0..(n - 1) |-> Sum([s \in 0..(n - 1) |-> a[s] * b[(t - s) % n]], 0, n - 1)]

\* S4D.forward, lines 181-189, for one batch entry and channel: the first
\* `length` samples of the inverse transform, plus u * D.
S4D_conv(k, u, D, length) ==
    LET n == fft_size(length)
        y == irfft_product(Resize(u, length, n), Resize(k, length, n), n)
    IN  [t \in 0..(length - 1) |-> y[t] + u[t] * D]

\* Bounds and the values drawn for kernel, input and skip weight.
MaxConvLen == 2
ConvChannels == {1, 2}
KernelVals == {0, 1, 2}
InputVals == {0, 1}
SkipVals == {0, 3}

Conv_apply ==
    /\ conv.pc = "args"
    /\ conv' = [conv EXCEPT !.pc = "done",
                    !.y = [h \in ConvChannels |->
                            S4D_conv(conv.k[h], conv.u[h], conv.D[h], conv.length)]]

InitConv ==
    /\ \E length \in 1..MaxConvLen :
        \E k \in [ConvChannels -> [0..(length - 1) -> KernelVals]],
           u \in [ConvChannels -> [0..(length - 1) -> InputVals]],
           D \in [ConvChannels -> SkipVals] :
            conv = [pc |-> "args", length |-> length, k |-> k, u |-> u, D |-> D,
                    y |-> <<>>]
    /\ made = Unused /\ model = Unused /\ call = Unused /\ drop = Unused

NextConv ==
    \/ Conv_apply /\ UNCHANGED <<made, model, call, drop>>

SpecConv == InitConv /\ [][NextConv]_vars

\* C5: before the activation, S4D computes at every channel h and time t the
\* causal convolution sum over s in 0..t of k[h,s] * u[h,t-s], plus
\* D[h] * u[h,t]: no later input wraps around, and with an all-zero kernel the
\* result is u * D.
C5_CausalConvolution ==
    conv.pc = "done" =>
        \A h \in ConvChannels : \A t \in 0..(conv.length - 1) :
            /\ conv.y[h][t] =
                  Sum([s \in 0..t |-> conv.k[h][s] * conv.u[h][t - s]], 0, t)
                  + conv.D[h] * conv.u[h][t]
            /\ (\A s \in 0..(conv.length - 1) : conv.k[h][s] = 0)
                    => conv.y[h][t] = conv.u[h][t] * conv.D[h]

C5_Witness ==
    /\ conv.pc = "done" /\ conv.length = MaxConvLen
    /\ \A h \in ConvChannels : \A t \in 0..(conv.length - 1) :
            conv.k[h][t] = 2 /\ conv.u[h][t] = 1 /\ conv.D[h] = 3
    /\ conv.y[1][0] = 5 /\ conv.y[1][conv.length - 1] = 2 * conv.length + 3

(***************************************************************************)
(* Dropout on values                                                       *)
(*                                                                         *)
(* A tensor of shape (n1, n2, n3) is a function on the index triples. The  *)
(* uniform draws of torch.rand are inputs, in thousandths like p.          *)
(***************************************************************************)

Idx(shape) == (1..shape[1]) \X (1..shape[2]) \X (1..shape[3])

\* rearrange(X, "b ... d -> b d ...") and its inverse on a 3-D tensor.
rearrange_shape(shape) == <<shape[1], shape[3], shape[2]>>
rearrange(X, shape) == [ix \in Idx(rearrange_shape(shape)) |-> X[<<ix[1], ix[3], ix[2]>>]]

\* A mask of the shape of X whatever tie says.
mask_shape_untied(shape, tie) == shape

\* X.shape[:2] + (1,) * (X.ndim - 2) if self.tie else X.shape
mask_shape(shape, tie) == IF tie THEN <<shape[1], shape[2], 1>> ELSE shape

\* X * mask * (1.0 / (1 - p)) with mask = rand < 1.0 - p, the mask broadcast
\* along an axis of size 1. The probabilities drawn make 1 / (1 - p) whole.
masked(X, shape, mshape, rand, p) ==
    [ix \in Idx(shape) |->
        LET m == rand[<<ix[1], ix[2], IF mshape[3] = 1 THEN 1 ELSE ix[3]>>] < 1000 - p
        IN  X[ix] * (IF m THEN 1 ELSE 0) * (1000 \div (1000 - p))]

\* DropoutNd.forward
DropoutNd_forward(self, training, X, shape, rand) ==
    IF training
    THEN LET s1 == IF self.transposed THEN shape ELSE rearrange_shape(shape)
             X1 == IF self.transposed THEN X ELSE rearrange(X, shape)
             X2 == masked(X1, s1, mask_shape(s1, self.tie), rand, self.p)
         IN  IF self.transposed THEN X2 ELSE rearrange(X2, s1)
    ELSE X

\* torch.nn.Dropout1d.forward, as S4D.forward (line 191) and S4Model.forward
\* (line 269) call it: identity unless training with p > 0, zero when p = 1,
\* else one draw per (batch, channel) pair, the survivors scaled by 1/(1-p).
Dropout1d_forward(self, training, X, shape, rand) ==
    IF ~training \/ self.p = 0 THEN X
    ELSE IF self.p = 1000 THEN [ix \in Idx(shape) |-> 0]
    ELSE masked(X, shape, <<shape[1], shape[2], 1>>, rand, self.p)

\* Bounds and the values drawn.
MaxDropLen == 2
DropBatches == {1, 2}
DropChannels == {1, 2}
DropProbs == {0, 500, 750, 1000}
RandVals == {100, 600}

\* The input: nonzero everywhere, a different value at every index.
DropInput(shape) == [ix \in Idx(shape) |-> 100 * ix[1] + 10 * ix[2] + ix[3]]

Drop_DropoutNd ==
    /\ drop.pc = "args"
    /\ ~DropoutNd_init(drop.p, drop.tie, drop.transposed).raised
    /\ drop' = [drop EXCEPT !.pc = "done", !.module = "DropoutNd",
                    !.Y = DropoutNd_forward(
                            DropoutNd_init(drop.p, drop.tie, drop.transposed),
                            drop.training, drop.X, drop.shape, drop.rand)]

Drop_Dropout1d ==
    /\ drop.pc = "args"
    /\ drop.tie /\ drop.transposed
    /\ ~Dropout1d_init(drop.p).raised
    /\ drop' = [drop EXCEPT !.pc = "done", !.module = "Dropout1d",
                    !.Y = Dropout1d_forward(Dropout1d_init(drop.p), drop.training,
                                            drop.X, drop.shape, drop.rand)]

InitDrop ==
    /\ \E d \in DropChannels, len \in 1..MaxDropLen, p \in DropProbs,
          training \in BOOLEAN, tie \in BOOLEAN, transposed \in BOOLEAN :
        LET B == Cardinality(DropBatches)
            shape == IF transposed THEN <<B, d, len>> ELSE <<B, len, d>>
            s1 == IF transposed THEN shape ELSE rearrange_shape(shape)
        IN  \E rand \in [Idx(mask_shape(s1, tie)) -> RandVals] :
                drop = [pc |-> "args", module |-> "none", p |-> p,
                        training |-> training, tie |-> tie,
                        transposed |-> transposed, shape |-> shape,
                        X |-> DropInput(shape), rand |-> rand, Y |-> <<>>]
    /\ made = Unused /\ model = Unused /\ call = Unused /\ conv = Unused

NextDrop ==
    \/ Drop_DropoutNd /\ UNCHANGED <<made, model, call, conv>>
    \/ Drop_Dropout1d /\ UNCHANGED <<made, model, call, conv>>

SpecDrop == InitDrop /\ [][NextDrop]_vars

\* The (batch, channel, position) index of an element of the input.
Channel(ix) == IF drop.transposed THEN ix[2] ELSE ix[3]

\* C10: dropout returns its input unchanged in evaluation mode and when p is
\* 0; in training mode with p > 0 every element is zeroed or rescaled by
\* 1/(1-p), and with tying the elements of one (batch, channel) pair are all
\* zeroed or all kept.
C10_Dropout ==
    drop.pc = "done" =>
        IF ~drop.training \/ drop.p = 0
        THEN drop.Y = drop.X
        ELSE /\ \A ix \in Idx(drop.shape) :
                    \/ drop.Y[ix] = 0
                    \/ drop.p < 1000 /\ drop.Y[ix] * (1000 - drop.p) = drop.X[ix] * 1000
             /\ drop.tie =>
                    \A ix \in Idx(drop.shape), iy \in Idx(drop.shape) :
                        (ix[1] = iy[1] /\ Channel(ix) = Channel(iy))
                            => ((drop.Y[ix] = 0) <=> (drop.Y[iy] = 0))

C10_Witness ==
    /\ drop.pc = "done" /\ drop.module = "DropoutNd" /\ drop.training
    /\ drop.tie /\ ~drop.transposed /\ drop.p = 750
    /\ drop.shape = <<2, MaxDropLen, 2>>
    /\ \A ix \in Idx(drop.shape) : (drop.Y[ix] = 0) <=> (ix[1] = 1 /\ ix[3] = 1)
    /\ drop.Y[<<2, 1, 2>>] = 4 * drop.X[<<2, 1, 2>>]

====
